---- MODULE Spec2Model ----
(***************************************************************************)
(* Model of the ICT strategy bot: the main loop (main.py), the per-symbol  *)
(* analysis pass and trade execution (strategies/ict_combined.py), the     *)
(* analysis helpers (analysis/*.py) and the behaviour of the three         *)
(* execution back ends (execution/*.py) as seen by the strategy.           *)
(*                                                                         *)
(* Prices are integers (ticks).  The float factors 1.0005 and 0.9995 of    *)
(* the price gate are kept exact by cross-multiplying with 10000.          *)
(* A pass is modelled step by step: one action per call of the execution   *)
(* handler, covering the answer of the call and all code up to the next    *)
(* call of the handler.                                                    *)
(***************************************************************************)
EXTENDS Integers, Sequences, FiniteSets, TLC

\* ------------------------------------------------------------------ bounds
NumSymbols == 2
MaxPositions == 1
MaxM5Len == 4
MaxSpread == 1
MaxRR == 3
MaxFvgLen == 5
MaxGaps == 2
MaxSwingLen == 5
MaxLookback == 2

\* ------------------------------------------------------- program constants
AllSymbols == <<"EURUSD", "GBPUSD", "USDJPY", "XAUUSD">>
SYMBOLS == SubSeq(AllSymbols, 1, IF NumSymbols < 4 THEN NumSymbols ELSE 4)
SymbolSet == {SYMBOLS[i] : i \in 1..Len(SYMBOLS)}
Modes == {"WINDOWS_MT5", "METAAPI", "DERIV"}
Lookback == 5
EpsNum == 5
EpsDen == 10000
TpMultiple == 2
\* find_fvg(threshold=0.0001), in the points of 0.00005 that the series of
\* a direct detector call are quoted in
DefaultThreshold == 2
NyOffsetStd == 300
NyOffsetDst == 240
DayMinutes == 1440

london_open_start == 2 * 60
london_open_end == 5 * 60
ny_open_start == 7 * 60
ny_open_end == 10 * 60
silver_bullet_am_start == 10 * 60
silver_bullet_am_end == 11 * 60

\* ------------------------------------------------ analysis/market_structure
\* pandas: comparing against a shifted-out (NaN) neighbour is False
HighGt_MissingPasses(df, i, j) == IF j \in DOMAIN df THEN df[i].high > df[j].high ELSE TRUE
HighGt(df, i, j) == IF j \in DOMAIN df THEN df[i].high > df[j].high ELSE FALSE
LowLt(df, i, j) == IF j \in DOMAIN df THEN df[i].low < df[j].low ELSE FALSE

IsSwingHigh(df, i, lookback) ==
    \A k \in 1..lookback : HighGt(df, i, i - k) /\ HighGt(df, i, i + k)

IsSwingLow(df, i, lookback) ==
    \A k \in 1..lookback : LowLt(df, i, i - k) /\ LowLt(df, i, i + k)

identify_swings(df, lookback) ==
    [i \in DOMAIN df |->
        [high |-> df[i].high, low |-> df[i].low, close |-> df[i].close,
         swing_high |-> IsSwingHigh(df, i, lookback),
         swing_low |-> IsSwingLow(df, i, lookback)]]

LastIndex(S) == CHOOSE i \in S : \A j \in S : j <= i

determine_trend_GateAtOne(df) ==
    LET swings == {i \in DOMAIN df : df[i].swing_high \/ df[i].swing_low}
        highs == {i \in DOMAIN df : df[i].swing_high}
        lows == {i \in DOMAIN df : df[i].swing_low}
    IN  IF Cardinality(swings) < 1 THEN "NEUTRAL"
        ELSE LET current_close == df[Len(df)].close
                 above == IF highs # {}
                          THEN current_close > df[LastIndex(highs)].high
                          ELSE FALSE
                 last_swing_low == IF lows # {} THEN df[LastIndex(lows)].low ELSE 0
             IN  IF above THEN "BULLISH"
                 ELSE IF current_close < last_swing_low THEN "BEARISH"
                 ELSE "RANGING"

determine_trend_HighDefaultsToZero(df) ==
    LET swings == {i \in DOMAIN df : df[i].swing_high \/ df[i].swing_low}
        highs == {i \in DOMAIN df : df[i].swing_high}
        lows == {i \in DOMAIN df : df[i].swing_low}
    IN  IF Cardinality(swings) < 2 THEN "NEUTRAL"
        ELSE LET current_close == df[Len(df)].close
                 last_swing_high == IF highs # {} THEN df[LastIndex(highs)].high ELSE 0
                 last_swing_low == IF lows # {} THEN df[LastIndex(lows)].low ELSE 0
             IN  IF current_close > last_swing_high THEN "BULLISH"
                 ELSE IF current_close < last_swing_low THEN "BEARISH"
                 ELSE "RANGING"

determine_trend(df) ==
    LET swings == {i \in DOMAIN df : df[i].swing_high \/ df[i].swing_low}
        highs == {i \in DOMAIN df : df[i].swing_high}
        lows == {i \in DOMAIN df : df[i].swing_low}
    IN  IF Cardinality(swings) < 2 THEN "NEUTRAL"
        ELSE LET current_close == df[Len(df)].close
                 \* float('inf') when there is no swing high
                 above == IF highs # {}
                          THEN current_close > df[LastIndex(highs)].high
                          ELSE FALSE
                 last_swing_low == IF lows # {} THEN df[LastIndex(lows)].low ELSE 0
             IN  IF above THEN "BULLISH"
                 ELSE IF current_close < last_swing_low THEN "BEARISH"
                 ELSE "RANGING"

\* ---------------------------------------------------- analysis/smart_money
\* find_fvg: the two columns get_last_fvg reads; row i looks at row i-2
is_bullish_fvg_Reversed(df, i) ==
    IF i - 2 \in DOMAIN df THEN df[i].low < df[i - 2].high ELSE FALSE
is_bullish_fvg(df, i) == IF i - 2 \in DOMAIN df THEN df[i].low > df[i - 2].high ELSE FALSE
is_bearish_fvg(df, i) == IF i - 2 \in DOMAIN df THEN df[i].high < df[i - 2].low ELSE FALSE

\* line 37: the only use of threshold
bullish_cond(df, i, threshold) ==
    IF i - 2 \in DOMAIN df
    THEN df[i].low > df[i - 2].high /\ df[i].low - df[i - 2].high > threshold
    ELSE FALSE

\* bullish_cond is computed and never stored in a column
find_fvg(df, threshold) ==
    LET cond == [i \in DOMAIN df |-> bullish_cond(df, i, threshold)]
    IN  [i \in DOMAIN df |->
            [time |-> df[i].time, high |-> df[i].high, low |-> df[i].low,
             fvg_bullish |-> FALSE, fvg_bearish |-> FALSE,
             is_bullish_fvg |-> is_bullish_fvg(df, i),
             is_bearish_fvg |-> is_bearish_fvg(df, i)]]

NoFvg == [type |-> "NONE", top |-> 0, bottom |-> 0, time |-> 0]

\* the loop "for i in range(len(df)-1, 2, -1)": 0-based i from len-1 down
\* to 3, which is 1-based i from Len down to 4
RECURSIVE FvgScan(_, _, _, _)
FvgScan(df, i, n, fvgs) ==
    IF i < 4 \/ Len(fvgs) >= n THEN fvgs
    ELSE IF df[i].is_bullish_fvg
         THEN FvgScan(df, i - 1, n,
                Append(fvgs, [type |-> "BULLISH", top |-> df[i].low,
                              bottom |-> df[i - 2].high, time |-> df[i].time]))
    ELSE IF df[i].is_bearish_fvg
         THEN FvgScan(df, i - 1, n,
                Append(fvgs, [type |-> "BEARISH", top |-> df[i - 2].low,
                              bottom |-> df[i].high, time |-> df[i].time]))
    ELSE FvgScan(df, i - 1, n, fvgs)

get_last_fvg(df, n) == FvgScan(find_fvg(df, DefaultThreshold), Len(df), n, <<>>)

\* -------------------------------------------------------- analysis/sessions
\* astimezone(America/New_York).time(): wall-clock minute of the day
NyTime_FixedOffset(dt) == (dt.utc + DayMinutes - NyOffsetStd) % DayMinutes
NyTime(dt) ==
    (dt.utc + DayMinutes - (IF dt.dst THEN NyOffsetDst ELSE NyOffsetStd)) % DayMinutes

is_in_killzone_OpenEnded(current_dt) ==
    LET ny_time == NyTime(current_dt)
    IN  IF london_open_start <= ny_time /\ ny_time < london_open_end THEN "LONDON_OPEN"
        ELSE IF ny_open_start <= ny_time /\ ny_time < ny_open_end THEN "NY_OPEN"
        ELSE IF silver_bullet_am_start <= ny_time /\ ny_time < silver_bullet_am_end
             THEN "SILVER_BULLET_AM"
        ELSE "NONE"

is_in_killzone(current_dt) ==
    LET ny_time == NyTime(current_dt)
    IN  IF london_open_start <= ny_time /\ ny_time <= london_open_end THEN "LONDON_OPEN"
        ELSE IF ny_open_start <= ny_time /\ ny_time <= ny_open_end THEN "NY_OPEN"
        ELSE IF silver_bullet_am_start <= ny_time /\ ny_time <= silver_bullet_am_end
             THEN "SILVER_BULLET_AM"
        ELSE "NONE"

\* ------------------------------------------------------------------ inputs
\* H4 series the series provider may return: 13 flat candles, optionally a
\* peak at candle 6, a trough at candle 7, and a last close below, inside or
\* above the range; and a series too short for any swing.
FlatCandle == [high |-> 5, low |-> 3, close |-> 4]
H4Series(peak, trough, c) ==
    [i \in 1..13 |->
        IF i = 6 /\ peak THEN [high |-> 7, low |-> 3, close |-> 4]
        ELSE IF i = 7 /\ trough THEN [high |-> 5, low |-> 1, close |-> 4]
        ELSE IF i = 13 THEN [high |-> IF c > 5 THEN c ELSE 5,
                             low |-> IF c < 3 THEN c ELSE 3, close |-> c]
        ELSE FlatCandle]
H4Inputs ==
    {H4Series(p, t, c) : p \in BOOLEAN, t \in BOOLEAN, c \in {0, 4, 8}}
        \cup {[i \in 1..3 |-> FlatCandle]}

\* M5 series: a lower and an upper candle, time = position in the series;
\* the upper one two candles after the lower one leaves the gap 2000..2002
CandleShapes ==
    {[high |-> 2000, low |-> 1998], [high |-> 2004, low |-> 2002]}
M5Of(shapes) ==
    [i \in DOMAIN shapes |->
        [time |-> i, high |-> shapes[i].high, low |-> shapes[i].low]]
M5Inputs ==
    UNION {{M5Of(f) : f \in [1..n -> CandleShapes]} : n \in 3..MaxM5Len}

\* ticks range over the prices the candles span
Lows == {c.low : c \in CandleShapes}
Highs == {c.high : c \in CandleShapes}
Prices ==
    (CHOOSE l \in Lows : \A x \in Lows : l <= x)
        .. (CHOOSE h \in Highs : \A x \in Highs : x <= h)
Ticks(m) ==
    {t \in [ask : Prices, bid : Prices] :
        /\ t.bid <= t.ask
        /\ t.ask - t.bid <= (IF m = "DERIV" THEN 0 ELSE MaxSpread)}

\* datetime.now(): a UTC minute of the day and whether New York is on
\* daylight time on that date
ClockMinutes == {419, 420}
Clocks == [utc : ClockMinutes, dst : BOOLEAN]

RRValues == TpMultiple..MaxRR

\* what the analysis makes of the inputs (evaluated once, as the code
\* computes them)
H4Biases == {determine_trend(identify_swings(h, Lookback)) : h \in H4Inputs}
ClockSessions == {is_in_killzone(dt) : dt \in Clocks}
NoTick == [ask |-> 0, bid |-> 0]

\* --------------------------------------------------------------- the state
VARIABLES
    mode,            \* Config.EXECUTION_MODE: the back end main() created
    IS_DRY_RUN,      \* Config.IS_DRY_RUN
    RR_RATIO,        \* Config.RR_RATIO
    connected,       \* the last answer of check_connection() in the main loop
    pc,              \* "main" (between cycles) or the pending handler call
    idx,             \* position of run_cycle's loop in SYMBOLS
    state,           \* ICTStrategy.state[symbol]["bias"]
    passes,          \* symbols analyze_symbol was called for in this cycle
    calls,           \* collaborator calls of the current (or last) pass
    bias,            \* locals of analyze_symbol / execute_trade
    session_status,
    m5_rates,        \* the series get_rates(M5) answered, until the next call answers
    fvg,
    tick_info,       \* the tick of the entry logic, until the next call answers
    direction,
    stop_loss,
    current_price,
    tp,
    order_result,
    positions,       \* open positions per symbol at the broker
    input,           \* arguments of a call to one of the analysis functions
    output,          \* what that call returned
    applied          \* the analysis function called on input ("idle": none)

config == <<mode, IS_DRY_RUN, RR_RATIO>>
locals == <<bias, session_status, m5_rates, fvg, tick_info, direction, stop_loss,
            current_price, tp, order_result>>
vars == <<mode, IS_DRY_RUN, RR_RATIO, connected, pc, idx, state, passes, calls,
          bias, session_status, m5_rates, fvg, tick_info, direction, stop_loss,
          current_price, tp, order_result, positions, input, output, applied>>
\* a direct call of an analysis function, outside the trading loop
unit == <<input, output, applied>>

\* a call made during the pass for SYMBOLS[idx]
Call(op, arg, res) == [op |-> op, symbol |-> SYMBOLS[idx], arg |-> arg, res |-> res]

InitState == [s \in SymbolSet |-> "NEUTRAL"]

Init ==
    /\ mode \in Modes
    /\ IS_DRY_RUN \in BOOLEAN
    /\ RR_RATIO \in RRValues
    /\ connected = TRUE
    /\ pc = "main"
    /\ idx = 1
    /\ state = InitState
    /\ passes = <<>>
    /\ calls = <<>>
    /\ bias = "UNSET"
    /\ session_status = "UNSET"
    /\ m5_rates = <<>>
    /\ fvg = NoFvg
    /\ tick_info = NoTick
    /\ direction = "UNSET"
    /\ stop_loss = 0
    /\ current_price = 0
    /\ tp = 0
    /\ order_result = "UNSET"
    /\ positions = [s \in SymbolSet |-> 0]
    /\ input = <<>>
    /\ output = <<>>
    /\ applied = "idle"

\* ----------------------------------------------- execution back ends
\* MT5Handler calls the native library outside any try/except;
\* MetaApiHandler and DerivHandler wrap every call and answer None/False.
CanRaise(m) == m = "WINDOWS_MT5"
FetchFailures(m) == {"none"} \cup (IF CanRaise(m) THEN {"raise"} ELSE {})

\* get_positions: [ok |-> FALSE] is None, otherwise the list has n entries
base_get_positions(m, open) ==
    IF m = "WINDOWS_MT5"
    THEN {[ok |-> TRUE, n |-> open], [ok |-> FALSE, n |-> 0]}
    ELSE {[ok |-> TRUE, n |-> 0]}

PositionsRes(p) == IF ~p.ok THEN "none" ELSE IF p.n > 0 THEN "some" ELSE "empty"

\* place_order: a truthy result, a falsy one (None / False), or an exception
OrderOutcomes(m) == {"ok", "fail"} \cup (IF CanRaise(m) THEN {"raise"} ELSE {})

\* ------------------------------------------ strategies/ict_combined.py
NeutralGate_Never(b) == FALSE
NeutralGate(b) == b = "NEUTRAL"

SessionGate(st) == st = "NONE"

TickPrice(b, t) == IF b = "BULLISH" THEN t.ask ELSE t.bid

EntryDirection_BiasOnly(b, f) ==
    IF b = "BULLISH" THEN "BUY" ELSE IF b = "BEARISH" THEN "SELL" ELSE "NONE"

EntryDirection(b, f) ==
    IF b = "BULLISH" /\ f.type = "BULLISH" THEN "BUY"
    ELSE IF b = "BEARISH" /\ f.type = "BEARISH" THEN "SELL"
    ELSE "NONE"

PriceGate_NoTolerance(d, f, p) == f.bottom <= p /\ p <= f.top

\* fvg['bottom'] <= p <= fvg['top'] * 1.0005   /   fvg['bottom'] * 0.9995 <= p <= fvg['top']
PriceGate(d, f, p) ==
    IF d = "BUY"
    THEN f.bottom <= p /\ p * EpsDen <= f.top * (EpsDen + EpsNum)
    ELSE f.bottom * (EpsDen - EpsNum) <= p * EpsDen /\ p <= f.top

StopFor(d, f) == IF d = "BUY" THEN f.bottom ELSE f.top

AlreadyInTrade_Never(p) == FALSE
AlreadyInTrade(p) == p.ok /\ p.n > 0

ExecPrice(d, t) == IF d = "BUY" THEN t.ask ELSE t.bid

Abs(x) == IF x < 0 THEN -x ELSE x

Dist(price, sl) == Abs(price - sl)

DegenerateRisk_Never(dist) == FALSE
DegenerateRisk(dist) == dist = 0

TakeProfit(d, price, dist) ==
    IF d = "BUY" THEN price + dist * TpMultiple ELSE price - dist * TpMultiple

SendsOrder_Always(dry) == TRUE
SendsOrder(dry) == ~dry

AlertAfterOrder_Always(result) == TRUE
AlertAfterOrder(result) == result = "ok"

\* run_cycle: the loop moves on to the next symbol, or the cycle is over
NextSymbol(i) == IF i < Len(SYMBOLS) THEN "H4" ELSE "main"

run_cycle_except_Propagates(i) == "crashed"

\* run_cycle's "except Exception": log and go on with the loop
run_cycle_except(i) == NextSymbol(i)

EndPass(c) ==
    /\ calls' = c
    /\ pc' = NextSymbol(idx)
    /\ idx' = idx + 1

RaisePass(c) ==
    /\ calls' = c
    /\ pc' = run_cycle_except(idx)
    /\ idx' = idx + 1

\* ------------------------------------------------------------- main.py
\* check_connection() answered False: sleep 10 s and retry
ConnectionLost ==
    /\ pc = "main"
    /\ connected' = FALSE
    /\ UNCHANGED <<unit, config, pc, idx, state, passes, calls, locals, positions>>

\* check_connection() answered True: a new ICTStrategy, then run_cycle()
StartCycle ==
    /\ pc = "main"
    /\ connected' = TRUE
    /\ state' = InitState
    /\ passes' = <<>>
    /\ idx' = 1
    /\ pc' = NextSymbol(0)
    /\ UNCHANGED <<unit, config, calls, locals, positions>>

\* --------------------------------------------- analyze_symbol, step 1-2
\* get_rates(symbol, "H4") answers; structure gate and session gate
GetRatesH4 ==
    /\ pc = "H4"
    /\ passes' = Append(passes, SYMBOLS[idx])
    /\ m5_rates' = <<>>
    /\ fvg' = NoFvg
    /\ tick_info' = NoTick
    /\ direction' = "UNSET"
    /\ stop_loss' = 0
    /\ current_price' = 0
    /\ tp' = 0
    /\ order_result' = "UNSET"
    /\ UNCHANGED <<unit, config, connected, positions>>
    /\ \/ \E r \in FetchFailures(mode) :
            /\ bias' = "UNSET"
            /\ session_status' = "UNSET"
            /\ state' = state
            /\ IF r = "raise"
               THEN RaisePass(<<Call("get_rates", "H4", r)>>)
               ELSE EndPass(<<Call("get_rates", "H4", r)>>)
       \/ \E b \in H4Biases, st \in ClockSessions :
            LET c == <<Call("get_rates", "H4", "ok")>>
            IN  /\ bias' = b
                /\ state' = [state EXCEPT ![SYMBOLS[idx]] = b]
                /\ IF NeutralGate(b)
                   THEN session_status' = "UNSET" /\ EndPass(c)
                   ELSE /\ session_status' = st
                        /\ IF SessionGate(st)
                           THEN EndPass(c)
                           ELSE calls' = c /\ pc' = "M15" /\ idx' = idx

\* --------------------------------------------------- analyze_symbol, step 3
GetRatesM15 ==
    /\ pc = "M15"
    /\ UNCHANGED <<unit, config, connected, state, passes, locals, positions>>
    /\ \/ \E r \in FetchFailures(mode) :
            IF r = "raise"
            THEN RaisePass(Append(calls, Call("get_rates", "M15", r)))
            ELSE EndPass(Append(calls, Call("get_rates", "M15", r)))
       \/ /\ calls' = Append(calls, Call("get_rates", "M15", "ok"))
          /\ pc' = "M5"
          /\ idx' = idx

\* --------------------------------------------------- analyze_symbol, step 4
GetRatesM5 ==
    /\ pc = "M5"
    /\ UNCHANGED <<unit, config, connected, state, passes, positions, bias, session_status,
                   tick_info, direction, stop_loss, current_price, tp, order_result>>
    /\ \/ \E r \in FetchFailures(mode) :
            /\ UNCHANGED <<m5_rates, fvg>>
            /\ IF r = "raise"
               THEN RaisePass(Append(calls, Call("get_rates", "M5", r)))
               ELSE EndPass(Append(calls, Call("get_rates", "M5", r)))
       \/ \E df_m5 \in M5Inputs :
            LET recent_fvgs == get_last_fvg(df_m5, 1)
                c == Append(calls, Call("get_rates", "M5", "ok"))
            IN  IF recent_fvgs = <<>>
                THEN UNCHANGED <<m5_rates, fvg>> /\ EndPass(c)
                ELSE /\ m5_rates' = df_m5
                     /\ fvg' = recent_fvgs[1]
                     /\ calls' = c
                     /\ pc' = "PRICE"
                     /\ idx' = idx

\* ------------------------------------- analyze_symbol, entry logic (87-105)
GetPriceEntry ==
    /\ pc = "PRICE"
    /\ UNCHANGED <<unit, config, connected, state, passes, positions, bias, session_status,
                   fvg, tp, order_result>>
    /\ m5_rates' = <<>>
    /\ \/ \E r \in FetchFailures(mode) :
            /\ UNCHANGED <<tick_info, current_price, direction, stop_loss>>
            /\ IF r = "raise"
               THEN RaisePass(Append(calls, Call("get_current_price", "entry", r)))
               ELSE EndPass(Append(calls, Call("get_current_price", "entry", r)))
       \/ \E tick \in Ticks(mode) :
            LET p == TickPrice(bias, tick)
                d == EntryDirection(bias, fvg)
                c == Append(calls, Call("get_current_price", "entry", "ok"))
            IN  /\ tick_info' = tick
                /\ current_price' = p
                /\ IF d # "NONE" /\ PriceGate(d, fvg, p)
                   THEN /\ direction' = d
                        /\ stop_loss' = StopFor(d, fvg)
                        /\ calls' = c
                        /\ pc' = "POSITIONS"
                        /\ idx' = idx
                   ELSE /\ UNCHANGED <<direction, stop_loss>>
                        /\ EndPass(c)

\* ------------------------------------------------ execute_trade (111-114)
GetPositions ==
    /\ pc = "POSITIONS"
    /\ UNCHANGED <<unit, config, connected, state, passes, positions, bias,
                   session_status, m5_rates, fvg, direction, stop_loss,
                   current_price, tp, order_result>>
    /\ tick_info' = NoTick
    /\ \/ /\ CanRaise(mode)
          /\ RaisePass(Append(calls, Call("get_positions", "symbol", "raise")))
       \/ \E p \in base_get_positions(mode, positions[SYMBOLS[idx]]) :
            LET c == Append(calls, Call("get_positions", "symbol", PositionsRes(p)))
            IN  IF AlreadyInTrade(p)
                THEN EndPass(c)
                ELSE calls' = c /\ pc' = "TICK" /\ idx' = idx

\* ------------------------------------------------ execute_trade (120-145)
GetPriceExec ==
    /\ pc = "TICK"
    /\ UNCHANGED <<unit, config, connected, state, passes, positions, bias, session_status,
                   m5_rates, fvg, tick_info, direction, stop_loss, order_result>>
    /\ \/ \E r \in FetchFailures(mode) :
            /\ UNCHANGED <<current_price, tp>>
            /\ IF r = "raise"
               THEN RaisePass(Append(calls, Call("get_current_price", "exec", r)))
               ELSE EndPass(Append(calls, Call("get_current_price", "exec", r)))
       \/ \E tick \in Ticks(mode) :
            LET p == ExecPrice(direction, tick)
                dist == Dist(p, stop_loss)
                c == Append(calls, Call("get_current_price", "exec", "ok"))
            IN  /\ current_price' = p
                /\ IF DegenerateRisk(dist)
                   THEN tp' = tp /\ EndPass(c)
                   ELSE /\ tp' = TakeProfit(direction, p, dist)
                        /\ IF SendsOrder(IS_DRY_RUN)
                           THEN calls' = c /\ pc' = "ORDER" /\ idx' = idx
                           ELSE EndPass(Append(c,
                                    Call("send_trade_alert", direction, "dry")))

\* open positions of the account, over the first k symbols
RECURSIVE OpenTotal(_, _)
OpenTotal(open, k) == IF k = 0 THEN 0 ELSE open[SYMBOLS[k]] + OpenTotal(open, k - 1)

\* place_order answers (136-140); the broker fills while the account has
\* fewer than MaxPositions open positions
PlaceOrder ==
    /\ pc = "ORDER"
    /\ UNCHANGED <<unit, config, connected, state, passes, bias, session_status, m5_rates,
                   fvg, tick_info, direction, stop_loss, current_price, tp>>
    /\ \E r \in OrderOutcomes(mode) :
        LET c == Append(calls, Call("place_order", direction, r))
        IN  /\ order_result' = r
            /\ IF r = "ok"
               THEN /\ OpenTotal(positions, Len(SYMBOLS)) < MaxPositions
                    /\ positions' = [positions EXCEPT ![SYMBOLS[idx]] = @ + 1]
               ELSE positions' = positions
            /\ IF r = "raise" THEN RaisePass(c)
               ELSE IF AlertAfterOrder(r)
                    THEN EndPass(Append(c, Call("send_trade_alert", direction, "live")))
                    ELSE EndPass(c)

Next ==
    \/ ConnectionLost
    \/ StartCycle
    \/ GetRatesH4
    \/ GetRatesM15
    \/ GetRatesM5
    \/ GetPriceEntry
    \/ GetPositions
    \/ GetPriceExec
    \/ PlaceOrder

Spec == Init /\ [][Next]_vars

TypeOK ==
    /\ pc \in {"main", "H4", "M15", "M5", "PRICE", "POSITIONS", "TICK", "ORDER"}
    /\ bias \in {"UNSET", "NEUTRAL", "BULLISH", "BEARISH", "RANGING"}
    /\ session_status \in {"UNSET", "NONE", "LONDON_OPEN", "NY_OPEN", "SILVER_BULLET_AM"}
    /\ fvg.type \in {"NONE", "BULLISH", "BEARISH"}
    /\ direction \in {"UNSET", "BUY", "SELL"}
    /\ \A s \in SymbolSet : positions[s] \in 0..MaxPositions
    /\ idx \in 1..(Len(SYMBOLS) + 1)
    /\ connected \in BOOLEAN

\* ================================================= direct detector calls
\* The analysis functions called on their own, on series richer than the
\* ones the trading loop is fed above.
ProgramIdle ==
    /\ mode = "DERIV"
    /\ IS_DRY_RUN = TRUE
    /\ RR_RATIO = TpMultiple
    /\ connected = FALSE
    /\ pc = "unit"
    /\ idx = 1
    /\ state = InitState
    /\ passes = <<>>
    /\ calls = <<>>
    /\ bias = "UNSET"
    /\ session_status = "UNSET"
    /\ m5_rates = <<>>
    /\ fvg = NoFvg
    /\ tick_info = NoTick
    /\ direction = "UNSET"
    /\ stop_loss = 0
    /\ current_price = 0
    /\ tp = 0
    /\ order_result = "UNSET"
    /\ positions = [s \in SymbolSet |-> 0]

\* ---- SmartMoney(data).find_fvg(threshold) / .get_last_fvg(n)
\* candles in points: three well-formed ones leaving gaps of 1 and of 3
\* points between them, and a malformed one with low above high
FvgShapes ==
    {[low |-> 0, high |-> 1], [low |-> 2, high |-> 3], [low |-> 4, high |-> 5],
     [low |-> 4, high |-> 1]}
FvgInputs ==
    UNION {{M5Of(f) : f \in [1..n -> FvgShapes]} : n \in 3..MaxFvgLen}
Thresholds == {0, DefaultThreshold}

InitFvg ==
    /\ ProgramIdle
    /\ input \in [df : FvgInputs, n : 1..MaxGaps, threshold : Thresholds]
    /\ output = <<>>
    /\ applied = "idle"

CallFindFvg ==
    /\ applied = "idle"
    /\ applied' = "find_fvg"
    /\ output' = find_fvg(input.df, input.threshold)
    /\ UNCHANGED <<input, config, connected, pc, idx, state, passes, calls,
                   locals, positions>>

CallGetLastFvg ==
    /\ applied = "idle"
    /\ applied' = "get_last_fvg"
    /\ output' = get_last_fvg(input.df, input.n)
    /\ UNCHANGED <<input, config, connected, pc, idx, state, passes, calls,
                   locals, positions>>

NextFvg ==
    \/ CallFindFvg
    \/ CallGetLastFvg

SpecFvg == InitFvg /\ [][NextFvg]_vars

\* ---- MarketStructure(data).identify_swings(lookback) / .determine_trend()
\* candles: a plain one, one with a higher high, one with a lower low, and
\* a wide one with both; every close is the low, the last close either end
SwingShapes ==
    {[high |-> 3, low |-> 2], [high |-> 4, low |-> 2], [high |-> 3, low |-> 1],
     [high |-> 5, low |-> 0]}
SwingSeries(shapes, top) ==
    [i \in DOMAIN shapes |->
        [high |-> shapes[i].high, low |-> shapes[i].low,
         close |-> IF i = Len(shapes) /\ top THEN shapes[i].high ELSE shapes[i].low]]
SwingInputs ==
    UNION {{SwingSeries(f, c) : f \in [1..n -> SwingShapes], c \in BOOLEAN} :
            n \in 1..MaxSwingLen}

InitSwings ==
    /\ ProgramIdle
    /\ input \in [df : SwingInputs, lookback : 1..MaxLookback]
    /\ output = <<>>
    /\ applied = "idle"

\* identify_swings annotates self.df in place; determine_trend reads it
CallIdentifySwings ==
    /\ applied = "idle"
    /\ applied' = "identify_swings"
    /\ output' = [df |-> identify_swings(input.df, input.lookback), trend |-> "UNSET"]
    /\ UNCHANGED <<input, config, connected, pc, idx, state, passes, calls,
                   locals, positions>>

CallDetermineTrend ==
    /\ applied = "identify_swings"
    /\ applied' = "determine_trend"
    /\ output' = [output EXCEPT !.trend = determine_trend(output.df)]
    /\ UNCHANGED <<input, config, connected, pc, idx, state, passes, calls,
                   locals, positions>>

NextSwings ==
    \/ CallIdentifySwings
    \/ CallDetermineTrend

SpecSwings == InitSwings /\ [][NextSwings]_vars

\* ---- SessionManager().is_in_killzone(current_dt)
\* an aware datetime: the wall-clock minute of the day in its own timezone,
\* that timezone's UTC offset in minutes, and whether New York is on
\* daylight time on its date; utc is the instant astimezone works from
SourceOffsets == {0 - 300, 0, 120}
Aware(wall, offset, dst) ==
    [wall |-> wall, offset |-> offset, dst |-> dst,
     utc |-> (wall - offset + DayMinutes) % DayMinutes]
SessionInputs ==
    {Aware(w, o, d) : w \in 0..(DayMinutes - 1), o \in SourceOffsets, d \in BOOLEAN}

InitSessions ==
    /\ ProgramIdle
    /\ input \in SessionInputs
    /\ output = <<>>
    /\ applied = "idle"

CallIsInKillzone ==
    /\ applied = "idle"
    /\ applied' = "is_in_killzone"
    /\ output' = is_in_killzone(input)
    /\ UNCHANGED <<input, config, connected, pc, idx, state, passes, calls,
                   locals, positions>>

NextSessions == CallIsInKillzone

SpecSessions == InitSessions /\ [][NextSessions]_vars

\* =============================================================== properties
HasCall(op) == \E i \in DOMAIN calls : calls[i].op = op
CountCalls(op) == Cardinality({i \in DOMAIN calls : calls[i].op = op})
LastCall == calls[Len(calls)]
IsCall(c, op, arg, res) == c.op = op /\ c.arg = arg /\ c.res = res

\* the pass the log belongs to has ended
PassOver == calls # <<>> /\ pc \in {"main", "H4"}

\* the pass cleared the duplicate gate and computed a target
Emitted == tp # 0

\* C1: when get_positions reports an open position, the pass has no place_order
\* and no send_trade_alert call; and every place_order or alert of a pass comes
\* after a get_positions call of that same pass, for the symbol of the pass,
\* that reported no open position.
C1_DuplicateGate ==
    /\ \A i \in DOMAIN calls :
        (calls[i].op = "get_positions" /\ calls[i].res = "some")
            => /\ i = Len(calls)
               /\ PassOver
               /\ ~HasCall("place_order")
               /\ ~HasCall("send_trade_alert")
    /\ \A i \in DOMAIN calls :
        calls[i].op \in {"place_order", "send_trade_alert"}
            => \E j \in 1..(i - 1) :
                /\ calls[j].op = "get_positions"
                /\ calls[j].symbol = calls[i].symbol
                /\ calls[j].res # "some"
    /\ pc \in {"TICK", "ORDER"} => HasCall("get_positions")

C1_Witness ==
    /\ PassOver
    /\ LastCall.op = "get_positions"
    /\ LastCall.res = "some"
    /\ direction # "UNSET"

\* C2: in dry-run mode place_order is never called and never pending.
C2_DryRunNoOrder ==
    IS_DRY_RUN => (~HasCall("place_order") /\ pc # "ORDER")

C2_Witness ==
    /\ IS_DRY_RUN
    /\ PassOver
    /\ Emitted
    /\ HasCall("send_trade_alert")

\* C3 (as claimed): every emitted signal ends with exactly one
\* send_trade_alert call, whatever the mode and the answer of place_order.
C3_AlertOnEverySignal ==
    (PassOver /\ Emitted) => CountCalls("send_trade_alert") = 1

\* C3 (amended): an emitted signal ends with exactly one send_trade_alert call
\* in dry-run mode and, in live mode, when place_order answered a truthy
\* result; with no alert when place_order answered a falsy result or raised.
C3_AlertUnlessOrderFailed ==
    (PassOver /\ Emitted)
        => CountCalls("send_trade_alert")
             = (IF IS_DRY_RUN \/ order_result = "ok" THEN 1 ELSE 0)

C3_Witness ==
    /\ PassOver
    /\ Emitted
    /\ ~IS_DRY_RUN
    /\ order_result = "fail"
    /\ ~HasCall("send_trade_alert")

\* C4 (as claimed): the target of an emitted signal lies RR_RATIO stop
\* distances beyond the entry price, on the side of the direction.
C4_TakeProfitUsesRR ==
    Emitted
        => tp = (IF direction = "BUY"
                 THEN current_price + Abs(current_price - stop_loss) * RR_RATIO
                 ELSE current_price - Abs(current_price - stop_loss) * RR_RATIO)

\* C5: right after the price of the entry logic arrived, the price is the ask
\* for a BULLISH bias and the bid otherwise, and with a gap of the kind of the
\* bias the pass goes on to execute_trade exactly when
\* bottom <= price <= top * 1.0005 (BULLISH) or
\* bottom * 0.9995 <= price <= top (BEARISH); the stop handed on is the
\* bottom of the gap for BUY and its top for SELL.
PriceStepDone ==
    calls # <<>> /\ IsCall(LastCall, "get_current_price", "entry", "ok")

C5_PriceGate ==
    PriceStepDone =>
        /\ current_price = (IF bias = "BULLISH" THEN tick_info.ask ELSE tick_info.bid)
        /\ (bias = "BULLISH" /\ fvg.type = "BULLISH") =>
            /\ (pc = "POSITIONS")
                 <=> (/\ fvg.bottom <= current_price
                      /\ current_price * 10000 <= fvg.top * 10005)
            /\ pc = "POSITIONS" => (direction = "BUY" /\ stop_loss = fvg.bottom)
        /\ (bias = "BEARISH" /\ fvg.type = "BEARISH") =>
            /\ (pc = "POSITIONS")
                 <=> (/\ fvg.bottom * 9995 <= current_price * 10000
                      /\ current_price <= fvg.top)
            /\ pc = "POSITIONS" => (direction = "SELL" /\ stop_loss = fvg.top)
        /\ pc # "POSITIONS" => PassOver

C5_Witness ==
    /\ PriceStepDone
    /\ pc = "POSITIONS"
    /\ bias = "BULLISH"
    /\ tick_info.ask # tick_info.bid
    /\ current_price > fvg.top

\* C6: the gap the entry logic works with is the most recent gap of the M5
\* series; execute_trade is entered, an order placed or an alert sent only
\* when that gap exists and is of the kind of the bias (BUY for BULLISH, SELL
\* for BEARISH); with a RANGING bias, or with a most recent gap of the other
\* kind, the pass has no order and no alert.
GapKindAt(df, i) ==
    IF df[i].low > df[i - 2].high THEN "BULLISH"
    ELSE IF df[i].high < df[i - 2].low THEN "BEARISH"
    ELSE "NONE"
GapIndices(df) == {i \in 3..Len(df) : GapKindAt(df, i) # "NONE"}
OlderGapOfKind(df, kind) ==
    \E i \in GapIndices(df) :
        /\ GapKindAt(df, i) = kind
        /\ \E j \in GapIndices(df) : j > i

C6_EntryGate ==
    /\ m5_rates # <<>> =>
        /\ GapIndices(m5_rates) # {}
        /\ fvg.type = GapKindAt(m5_rates, LastIndex(GapIndices(m5_rates)))
    /\ (direction # "UNSET" \/ HasCall("place_order") \/ HasCall("send_trade_alert"))
        => /\ fvg.type # "NONE"
           /\ fvg.type = bias
           /\ direction = (IF bias = "BULLISH" THEN "BUY" ELSE "SELL")
    /\ (bias = "RANGING" \/ fvg.type # bias)
        => /\ ~HasCall("get_positions")
           /\ ~HasCall("place_order")
           /\ ~HasCall("send_trade_alert")
           /\ pc \notin {"POSITIONS", "TICK", "ORDER"}

\* get_last_fvg(n=1) answered a BEARISH gap under a BULLISH bias while an
\* older gap of the series is BULLISH
C6_Witness ==
    /\ pc = "PRICE"
    /\ bias = "BULLISH"
    /\ fvg.type = "BEARISH"
    /\ OlderGapOfKind(m5_rates, "BULLISH")

\* C7: with a NEUTRAL bias, or with a time outside every killzone, the pass is
\* over after the H4 fetch: the log of the pass holds that fetch and nothing
\* else.
C7_TerminalOnFirstGate ==
    (bias = "NEUTRAL" \/ session_status = "NONE")
        => /\ Len(calls) = 1
           /\ IsCall(calls[1], "get_rates", "H4", "ok")
           /\ pc \in {"main", "H4"}

C7_Witness ==
    /\ bias \in {"BULLISH", "BEARISH"}
    /\ session_status = "NONE"
    /\ PassOver

\* C8: in every cycle analyze_symbol is called for the symbols in list order,
\* once each: the passes so far are a prefix of SYMBOLS, between cycles all of
\* SYMBOLS has been passed, and no exception leaves run_cycle.
C8_RunCycle ==
    /\ pc # "crashed"
    /\ Len(passes) <= Len(SYMBOLS)
    /\ passes = SubSeq(SYMBOLS, 1, Len(passes))
    /\ pc = "main" => (passes = <<>> \/ passes = SYMBOLS)
    /\ pc = "H4" => Len(passes) = idx - 1
    /\ pc \notin {"main", "H4"} => Len(passes) = idx

\* the pass of the first symbol raised and the loop stands at the second
C8_Witness ==
    /\ pc = "H4"
    /\ idx = 2
    /\ passes = <<SYMBOLS[1]>>
    /\ LastCall.res = "raise"

\* C9 (as claimed): a pass in which a fetch failed (answer None) has no
\* place_order and no send_trade_alert call.
C9_DataUnavailableAborts ==
    (\E i \in DOMAIN calls : calls[i].res = "none")
        => (~HasCall("place_order") /\ ~HasCall("send_trade_alert"))

\* C10: when the price fetched by execute_trade equals the stop, the pass is
\* over with no place_order and no send_trade_alert call.
ExecPriceArrived ==
    \E i \in DOMAIN calls : IsCall(calls[i], "get_current_price", "exec", "ok")

C10_DegenerateRisk ==
    (ExecPriceArrived /\ Abs(current_price - stop_loss) = 0)
        => /\ PassOver
           /\ ~HasCall("place_order")
           /\ ~HasCall("send_trade_alert")
           /\ tp = 0

C10_Witness ==
    /\ ExecPriceArrived
    /\ current_price = stop_loss
    /\ PassOver
    /\ direction = "SELL"

\* ------------------------------------------------ the gap detector alone
\* the gap of the triple (i-2, i-1, i) as the specification defines it
SpecBullishGap(df, i, threshold) ==
    df[i].low > df[i - 2].high /\ df[i].low - df[i - 2].high > threshold
SpecBearishGap(df, i, threshold) ==
    df[i].high < df[i - 2].low /\ df[i - 2].low - df[i].high > threshold

\* C11: find_fvg flags the third candle of a triple as bullish (bearish)
\* exactly when the gap is open and larger than the threshold, and
\* get_last_fvg never returns a gap of size <= the threshold.
C11_ThresholdHonoured ==
    /\ applied = "find_fvg" =>
        \A i \in 3..Len(input.df) :
            /\ output[i].is_bullish_fvg <=> SpecBullishGap(input.df, i, input.threshold)
            /\ output[i].is_bearish_fvg <=> SpecBearishGap(input.df, i, input.threshold)
    /\ applied = "get_last_fvg" =>
        \A k \in DOMAIN output : output[k].top - output[k].bottom > DefaultThreshold

\* the triples (i-2, i-1, i) of a series that form a gap, by their third
\* candle (1-based 3..Len, i.e. 0-based 2..L-1), and the gap of such a triple
GapTriples(df) == {i \in 3..Len(df) : is_bullish_fvg(df, i) \/ is_bearish_fvg(df, i)}
SpecGap(df, i) ==
    IF is_bullish_fvg(df, i)
    THEN [type |-> "BULLISH", top |-> df[i].low, bottom |-> df[i - 2].high]
    ELSE [type |-> "BEARISH", top |-> df[i - 2].low, bottom |-> df[i].high]
RECURSIVE SpecLastGaps(_, _, _)
SpecLastGaps(df, Q, n) ==
    IF n = 0 \/ Q = {} THEN <<>>
    ELSE LET i == LastIndex(Q)
         IN  <<SpecGap(df, i)>> \o SpecLastGaps(df, Q \ {i}, n - 1)
Bounds(fvgs) ==
    [k \in DOMAIN fvgs |->
        [type |-> fvgs[k].type, top |-> fvgs[k].top, bottom |-> fvgs[k].bottom]]

\* C12: get_last_fvg(n) returns the min(n, G) gaps with the largest third
\* candle among all G gap triples ending at 0-based index 2..L-1, most
\* recent first; three candles with low[2] > high[0] give one bullish gap.
C12_MostRecentGaps ==
    applied = "get_last_fvg" =>
        Bounds(output) = SpecLastGaps(input.df, GapTriples(input.df), input.n)

\* C13: a gap is anchored at the middle candle of its triple: find_fvg sets
\* the flag of the triple (i-2, i-1, i) on candle i-1, and the time of every
\* gap get_last_fvg returns is the time of the middle candle of a triple
\* that forms this gap.
C13_AnchoredAtMiddle ==
    /\ applied = "find_fvg" =>
        \A i \in 3..Len(input.df) :
            /\ output[i - 1].is_bullish_fvg <=> is_bullish_fvg(input.df, i)
            /\ output[i - 1].is_bearish_fvg <=> is_bearish_fvg(input.df, i)
    /\ applied = "get_last_fvg" =>
        \A k \in DOMAIN output :
            \E i \in GapTriples(input.df) :
                /\ Bounds(output)[k] = SpecGap(input.df, i)
                /\ output[k].time = input.df[i - 1].time

WellFormed(df) == \A i \in DOMAIN df : df[i].low <= df[i].high

\* C14: on candles with low <= high, no candle is flagged (or returned) as
\* both a bullish and a bearish gap, and every returned gap has top > bottom.
C14_ExclusiveAndOrdered ==
    WellFormed(input.df) =>
        /\ applied = "find_fvg" =>
            \A i \in DOMAIN output :
                ~(output[i].is_bullish_fvg /\ output[i].is_bearish_fvg)
        /\ applied = "get_last_fvg" =>
            /\ \A k \in DOMAIN output : output[k].top > output[k].bottom
            /\ \A j, k \in DOMAIN output :
                output[j].time = output[k].time => output[j].type = output[k].type

\* two gaps returned on a well-formed series, one of each kind
C14_Witness ==
    /\ applied = "get_last_fvg"
    /\ WellFormed(input.df)
    /\ Len(output) = 2
    /\ output[1].type = "BEARISH"
    /\ output[2].type = "BULLISH"

\* ---------------------------------------- the swing detector and the trend
\* the strict-extremum rule as the specification words it; position p is
\* 1-based, so 0-based "lookback <= i < len - lookback" is lookback < p <=
\* Len - lookback
SpecSwingHigh(df, p, lookback) ==
    /\ lookback < p
    /\ p <= Len(df) - lookback
    /\ \A k \in 1..lookback :
        df[p].high > df[p - k].high /\ df[p].high > df[p + k].high
SpecSwingLow(df, p, lookback) ==
    /\ lookback < p
    /\ p <= Len(df) - lookback
    /\ \A k \in 1..lookback :
        df[p].low < df[p - k].low /\ df[p].low < df[p + k].low

\* C15: identify_swings marks a candle as swing high (low) exactly when it
\* has lookback neighbours on both sides and is strictly above (below) each
\* of them; a series of length <= 2*lookback has no swing.
C15_StrictExtremum ==
    applied = "identify_swings" =>
        /\ \A p \in DOMAIN output.df :
            /\ output.df[p].swing_high <=> SpecSwingHigh(input.df, p, input.lookback)
            /\ output.df[p].swing_low <=> SpecSwingLow(input.df, p, input.lookback)
        /\ Len(input.df) <= 2 * input.lookback =>
            \A p \in DOMAIN output.df :
                ~output.df[p].swing_high /\ ~output.df[p].swing_low

\* a marked swing high next to a boundary candle, and an inner candle above
\* its left neighbour that ties its right neighbour and is not marked
C15_Witness ==
    /\ applied = "identify_swings"
    /\ input.lookback = 1
    /\ Len(input.df) >= 3
    /\ output.df[2].swing_high
    /\ ~output.df[1].swing_high
    /\ \E q \in 2..(Len(input.df) - 1) :
        /\ input.df[q].high > input.df[q - 1].high
        /\ input.df[q].high = input.df[q + 1].high
        /\ ~output.df[q].swing_high

\* C16: after identify_swings no candle is marked both as a swing high and
\* as a swing low.
C16_NeverBoth ==
    applied = "identify_swings" =>
        \A p \in DOMAIN output.df :
            ~(output.df[p].swing_high /\ output.df[p].swing_low)

\* the confirmed swings of an annotated series: the candles flagged as
\* swing high together with those flagged as swing low
SwingHighs(df) == {p \in DOMAIN df : df[p].swing_high}
SwingLows(df) == {p \in DOMAIN df : df[p].swing_low}
SwingCandles(df) == SwingHighs(df) \cup SwingLows(df)

C18_WitnessBullish ==
    /\ applied = "determine_trend"
    /\ SwingHighs(output.df) # {}
    /\ output.trend = "BULLISH"
C18_WitnessBearish ==
    /\ applied = "determine_trend"
    /\ SwingHighs(output.df) # {}
    /\ SwingLows(output.df) # {}
    /\ output.trend = "BEARISH"

\* ------------------------------------------------- the session classifier
\* New York wall-clock minute of the day of an aware datetime: UTC-5 under
\* standard time, UTC-4 under daylight time
SpecNyWall(dt) ==
    (dt.wall - dt.offset - (IF dt.dst THEN 4 * 60 ELSE 5 * 60) + 2 * DayMinutes) % DayMinutes

\* C19: with w the New York wall-clock time, is_in_killzone returns
\* LONDON_OPEN iff 02:00 <= w <= 05:00, else NY_OPEN iff 07:00 <= w <= 10:00,
\* else SILVER_BULLET_AM iff 10:00 <= w <= 11:00, else None; at exactly
\* 10:00 it returns NY_OPEN.
C19_ClosedIntervalsInOrder ==
    applied = "is_in_killzone" =>
        LET w == SpecNyWall(input)
        IN  /\ output = (IF 2 * 60 <= w /\ w <= 5 * 60 THEN "LONDON_OPEN"
                         ELSE IF 7 * 60 <= w /\ w <= 10 * 60 THEN "NY_OPEN"
                         ELSE IF 10 * 60 <= w /\ w <= 11 * 60 THEN "SILVER_BULLET_AM"
                         ELSE "NONE")
            /\ w = 10 * 60 => output = "NY_OPEN"

\* 10:00 in New York, asked from a timezone two hours ahead of UTC
C19_Witness ==
    /\ applied = "is_in_killzone"
    /\ SpecNyWall(input) = 10 * 60
    /\ input.offset = 120
    /\ output = "NY_OPEN"

\* the UTC minute of the day of an instant, and membership in a window of
\* New York wall-clock minutes a..b opened at UTC offset off (minutes behind)
UtcMinute(dt) == (dt.wall - dt.offset + DayMinutes) % DayMinutes
InUtcWindow(u, a, b, off) ==
    \E m \in a..b : u = (m + off) % DayMinutes

\* C20: the windows are fixed in New York wall-clock time: in UTC each
\* window opens and closes 5 hours later than its New York times under
\* standard time and 4 hours later under daylight time, whatever the
\* timezone the timestamp is given in.
C20_TracksDaylightSaving ==
    applied = "is_in_killzone" =>
        LET off == IF input.dst THEN 4 * 60 ELSE 5 * 60
            u == UtcMinute(input)
        IN  /\ output = "LONDON_OPEN" <=> InUtcWindow(u, 2 * 60, 5 * 60, off)
            /\ output = "NY_OPEN" <=> InUtcWindow(u, 7 * 60, 10 * 60, off)
            /\ output = "SILVER_BULLET_AM" <=> InUtcWindow(u, 10 * 60 + 1, 11 * 60, off)

\* 06:30 UTC on a date under daylight time is 02:30 in New York (LONDON_OPEN);
\* under standard time the same UTC minute is 01:30, outside every window
C20_Witness ==
    /\ applied = "is_in_killzone"
    /\ UtcMinute(input) = 6 * 60 + 30
    /\ input.dst
    /\ input.offset # 0
    /\ output = "LONDON_OPEN"

\* ------------------------------------------------------ across the cycles
\* the step is a pass of symbol s whose H4 fetch succeeded
H4Fetched(s) ==
    /\ pc = "H4"
    /\ SYMBOLS[idx] = s
    /\ IsCall(calls'[1], "get_rates", "H4", "ok")

\* C21: the stored bias of a symbol only ever changes to the bias computed
\* by a pass of that symbol whose H4 fetch succeeded: it starts NEUTRAL, is
\* kept by every other step, over any number of cycles of the main loop,
\* and a pass of one symbol leaves the stored bias of the others unchanged.
C21_BiasKeptAcrossCycles ==
    [][\A s \in SymbolSet :
        state'[s] = (IF H4Fetched(s) THEN bias' ELSE state[s])]_vars

\* C22: whenever a pass has placed an order or sent an alert, stop, entry
\* and target are ordered with the direction: stop_loss < entry < take
\* profit for a BUY and take profit < entry < stop_loss for a SELL, the
\* entry being the price the distance and the take profit were computed from.
C22_StopEntryTargetOrdered ==
    (HasCall("place_order") \/ HasCall("send_trade_alert")) =>
        /\ direction = "BUY" => (stop_loss < current_price /\ current_price < tp)
        /\ direction = "SELL" => (tp < current_price /\ current_price < stop_loss)

\* C23: place_order is never called for a symbol while a position opened by
\* an earlier successful place_order for that symbol is still open, so at
\* most one position per symbol is open at any time (pc = "ORDER": the call
\* of place_order for SYMBOLS[idx] is under way).
C23_OnePositionPerSymbol ==
    /\ pc = "ORDER" => positions[SYMBOLS[idx]] = 0
    /\ \A s \in SymbolSet : positions[s] <= 1

====
